---- MODULE Spec2Model ----
(***************************************************************************)
(* TaskGlitch: the App component (task store, undo snackbar, CSV import,   *)
(* view pipeline, dialog) as a state machine.  Text is a sequence of       *)
(* one-character strings, time is in milliseconds, every event handler     *)
(* runs together with the render and the effects that follow it; the one   *)
(* step that separates an update from its render is clickUndoStale.        *)
(***************************************************************************)
EXTENDS Integers, Sequences, FiniteSets, TLC

VARIABLES
  tasks,            \* state.tasks
  lastDeletedTask,  \* state.lastDeletedTask (a task or Null)
  isUndoVisible,    \* state.isUndoVisible
  isLoading,        \* state.isLoading
  searchQuery,      \* searchQuery
  filterStatus,     \* filterStatus
  filterPriority,   \* filterPriority
  dialogConfig,     \* dialogConfig {isOpen, type, selectedTask}
  isFetched,        \* isFetched.current
  effectRuns,       \* how often the initial-load effect has been invoked
  loadTimer,        \* number of pending setTimeout(loadTasks, 600)
  loadsDone,        \* number of loadTasks callbacks that have run
  undoTimer,        \* ms left on setTimeout(closeUndoSnackbar, 6000); 0 = none
  reader,           \* texts of the FileReader reads still in flight
  localStorage,     \* value under the key 'task_glitch_v3' (Null = absent)
  now,              \* Date.now()
  nextId,           \* source of generateId()
  lastOp,           \* history: name of the last handler that ran
  lastArg,          \* history: what that handler was given and found
  discarded,        \* history: ids of tasks dropped from the undo slot
  events            \* history: number of user events handled so far

vars == <<tasks, lastDeletedTask, isUndoVisible, isLoading, searchQuery,
          filterStatus, filterPriority, dialogConfig, isFetched, effectRuns,
          loadTimer, loadsDone, undoTimer, reader, localStorage, now, nextId,
          lastOp, lastArg, discarded, events>>

-----------------------------------------------------------------------------
(* Bounds of the model *)

MaxId == 5           \* generateId() is not called beyond this id
MaxTicks == 2        \* the clock stops after this many steps of TICK ms
MaxReads == 1        \* FileReader reads in flight at once
MaxEffectRuns == 2   \* invocations of the initial-load effect (StrictMode)
MaxEvents == 3       \* user events (clicks, submits, file choices) in a run

(* Program constants *)

UNDO_TIMEOUT == 6000
ROW_OFFSET == 1000
TICK == 3000
MIN_FIELDS == 6

Null == [null |-> TRUE]

-----------------------------------------------------------------------------
(* Text *)

HIGH == <<"H","i","g","h">>
MEDIUM == <<"M","e","d","i","u","m">>
LOW == <<"L","o","w">>
PENDING == <<"P","e","n","d","i","n","g">>
IN_PROGRESS == <<"I","n"," ","P","r","o","g","r","e","s","s">>
COMPLETED == <<"C","o","m","p","l","e","t","e","d">>
ALL == <<"A","l","l">>
NEW_TASK == <<"N","e","w"," ","T","a","s","k">>

Upper == <<"A","B","C","D","E","F","G","H","I","J","K","L","M",
           "N","O","P","Q","R","S","T","U","V","W","X","Y","Z">>
Lower == <<"a","b","c","d","e","f","g","h","i","j","k","l","m",
           "n","o","p","q","r","s","t","u","v","w","x","y","z">>

\* the lower-case letter of each upper-case letter
LowerOf ==
  [c \in {Upper[i] : i \in 1..26} |-> Lower[CHOOSE i \in 1..26 : Upper[i] = c]]

lowerChar(c) == IF c \in DOMAIN LowerOf THEN LowerOf[c] ELSE c

toLowerCase(s) == [i \in 1..Len(s) |-> lowerChar(s[i])]

includes(s, q) ==
  \E i \in 1..(Len(s) + 1) :
    /\ i + Len(q) - 1 <= Len(s)
    /\ SubSeq(s, i, i + Len(q) - 1) = q

isSpace(c) == c \in {" ", "\t", "\r", "\n"}

RECURSIVE trimStart(_)
trimStart(s) ==
  IF s # <<>> /\ isSpace(Head(s)) THEN trimStart(Tail(s)) ELSE s

RECURSIVE trimEnd(_)
trimEnd(s) ==
  IF s # <<>> /\ isSpace(s[Len(s)])
    THEN trimEnd(SubSeq(s, 1, Len(s) - 1))
    ELSE s

trim(s) == trimEnd(trimStart(s))

\* s.split(sep): always at least one piece; "" splits into [""]
RECURSIVE splitFrom(_, _, _, _)
splitFrom(s, sep, i, cur) ==
  IF i > Len(s) THEN <<cur>>
  ELSE IF s[i] = sep THEN <<cur>> \o splitFrom(s, sep, i + 1, <<>>)
  ELSE splitFrom(s, sep, i + 1, Append(cur, s[i]))

split(s, sep) == splitFrom(s, sep, 1, <<>>)

\* s.replace(/"/g, '')
RECURSIVE stripQuotes(_)
stripQuotes(s) ==
  IF s = <<>> THEN <<>>
  ELSE IF Head(s) = "\"" THEN stripQuotes(Tail(s))
  ELSE <<Head(s)>> \o stripQuotes(Tail(s))

Digits == <<"0","1","2","3","4","5","6","7","8","9">>
isDigit(c) == \E d \in 1..10 : Digits[d] = c
digitVal(c) == (CHOOSE d \in 1..10 : Digits[d] = c) - 1

RECURSIVE digitsValue(_, _, _)
digitsValue(s, i, acc) ==
  IF i <= Len(s) /\ isDigit(s[i])
    THEN digitsValue(s, i + 1, acc * 10 + digitVal(s[i]))
    ELSE acc

\* parseFloat on unsigned integer text: <<n>> for a number, <<>> for NaN
parseFloat(s) ==
  LET t == trimStart(s) IN
  IF t # <<>> /\ isDigit(t[1]) THEN <<digitsValue(t, 1, 0)>> ELSE <<>>

\* parseFloat(x) || 0
numOrZero(r) == IF r = <<>> THEN 0 ELSE r[1]

-----------------------------------------------------------------------------
(* Partial<Task>: a record with some of the fields of a task *)

has(data, f) == f \in DOMAIN data

\* data.f || dflt for a text field (absent and "" are falsy)
orText(data, f, dflt) ==
  IF has(data, f) /\ data[f] # <<>> THEN data[f] ELSE dflt

\* data.f || 0 for a numeric field (absent and 0 are falsy)
orNum(data, f) == IF has(data, f) THEN data[f] ELSE 0

\* { ...t, ...data }
spread(t, data) ==
  [f \in (DOMAIN t) \cup (DOMAIN data) |-> IF has(data, f) THEN data[f] ELSE t[f]]

\* calculateROI(revenue, timeTaken)
calculateROI(revenue, timeTaken) ==
  IF timeTaken = 0 THEN 0 ELSE revenue \div timeTaken

\* generateId(): the k-th id handed out from this state on
generateId(k) == nextId + k - 1

(* JSON.stringify / JSON.parse of a task list: the stored text is kept as a
   tagged value, each object as its property-to-value map *)
JSONstringify(ts) == [json |-> [i \in 1..Len(ts) |-> ts[i]]]
JSONparse(text) == [i \in 1..Len(text.json) |-> text.json[i]]

\* a stored text JSON.parse rejects with a SyntaxError
Corrupt == [text |-> <<"[", "{">>]
parses(text) == "json" \in DOMAIN text

Range(s) == {s[i] : i \in 1..Len(s)}
Ids(ts) == {ts[i].id : i \in 1..Len(ts)}

-----------------------------------------------------------------------------
(* View pipeline *)

\* PRIORITY_WEIGHTS[p]
PRIORITY_WEIGHTS(p) ==
  IF p = HIGH THEN 3 ELSE IF p = MEDIUM THEN 2 ELSE IF p = LOW THEN 1 ELSE 0

\* a is shown before b
before(a, b) ==
  \/ PRIORITY_WEIGHTS(a.priority) > PRIORITY_WEIGHTS(b.priority)
  \/ /\ PRIORITY_WEIGHTS(a.priority) = PRIORITY_WEIGHTS(b.priority)
     /\ a.createdAt > b.createdAt

RECURSIVE insertSorted(_, _)
insertSorted(sorted, t) ==
  IF sorted = <<>> THEN <<t>>
  ELSE IF before(t, Head(sorted)) THEN <<t>> \o sorted
  ELSE <<Head(sorted)>> \o insertSorted(Tail(sorted), t)

\* sortTasks(list): stable, by priority weight, then newest first
RECURSIVE sortTasks(_)
sortTasks(list) ==
  IF list = <<>> THEN <<>>
  ELSE insertSorted(sortTasks(SubSeq(list, 1, Len(list) - 1)), list[Len(list)])

matchesSearch(t) == includes(toLowerCase(t.title), toLowerCase(searchQuery))
matchesStatus(t) == filterStatus = ALL \/ t.status = filterStatus
matchesPriority(t) == filterPriority = ALL \/ t.priority = filterPriority

keepsAnyPriority(t) == matchesSearch(t) /\ matchesStatus(t)

keeps(t) == matchesSearch(t) /\ matchesStatus(t) /\ matchesPriority(t)

filtered == SelectSeq(tasks, keeps)

displayTasks == sortTasks(filtered)

-----------------------------------------------------------------------------
(* Inputs *)

Q == "\""

\* parts.join(sep)
RECURSIVE join(_, _)
join(parts, sep) ==
  IF parts = <<>> THEN <<>>
  ELSE IF Len(parts) = 1 THEN parts[1]
  ELSE parts[1] \o <<sep>> \o join(Tail(parts), sep)

HeaderRow == <<<<"t">>, <<"r">>, <<"h">>, <<"o">>, <<"p">>, <<"s">>, <<"n">>>>
Row7 == <<<<Q, "A", Q>>, <<"2","0">>, <<"5">>, <<"4">>, HIGH, COMPLETED, <<Q, "x", Q>>>>
Row6 == <<<<"b">>, <<"x">>, <<"0">>, <<>>, <<>>, <<>>>>
Row5 == <<<<"d">>, <<"1">>, <<"2">>, <<"3">>, LOW>>
Row3 == <<<<"c">>, <<"1">>, <<"2">>>>
BlankRow == <<<<" ", " ">>>>

csvText(rows) == join([i \in 1..Len(rows) |-> join(rows[i], ",")], "\n")

\* the files offered to the Import button
CsvFiles ==
  { csvText(<<HeaderRow, Row7, Row3, Row6>>),
    csvText(<<Row6, BlankRow, Row5>>) }

\* what the dialog's form submits
FormInputs ==
  { [title |-> <<"B", "a">>, revenue |-> 30, timeTaken |-> 3, roi |-> 10,
     priority |-> HIGH, status |-> IN_PROGRESS, notes |-> <<"n">>],
    [title |-> <<>>, revenue |-> 0, status |-> COMPLETED] }

\* every Partial<Task> given to updateTask
AnyPartials ==
  FormInputs \cup { [id |-> 1], [id |-> 2, title |-> <<"Z">>], [createdAt |-> 7] }

SavedTask1 ==
  [id |-> 1, title |-> <<"A">>, revenue |-> 10, timeTaken |-> 2, roi |-> 5,
   priority |-> LOW, status |-> PENDING, notes |-> <<>>, createdAt |-> -2000]
SavedTask2 ==
  [id |-> 2, title |-> <<"B">>, revenue |-> 0, timeTaken |-> 0, roi |-> 0,
   priority |-> HIGH, status |-> COMPLETED, notes |-> <<"k">>, createdAt |-> -3000]

\* the lists an earlier session can have left under the key
SavedLists == { <<SavedTask1, SavedTask2>> }

\* the seed of the first run
initialTasks ==
  << [id |-> generateId(1),
      title |-> <<"E","n","t","e","r","p","r","i","s","e"," ","S","a","l","e","s"," ","D","e","c","k">>,
      revenue |-> 15000, timeTaken |-> 20, roi |-> 750, priority |-> HIGH,
      status |-> IN_PROGRESS,
      notes |-> <<"K","e","y"," ","a","c","c","o","u","n","t"," ","r","e","v","i","e","w",".">>,
      createdAt |-> now],
     [id |-> generateId(2),
      title |-> <<"L","e","a","d"," ","O","u","t","r","e","a","c","h"," ","P","h","a","s","e"," ","1">>,
      revenue |-> 2500, timeTaken |-> 10, roi |-> 250, priority |-> MEDIUM,
      status |-> COMPLETED,
      notes |-> <<"S","t","a","n","d","a","r","d"," ","o","u","t","r","e","a","c","h",".">>,
      createdAt |-> now - 5000],
     [id |-> generateId(3),
      title |-> <<"A","d","m","i","n"," ","&"," ","R","e","p","o","r","t","i","n","g">>,
      revenue |-> 0, timeTaken |-> 5, roi |-> 0, priority |-> LOW,
      status |-> PENDING,
      notes |-> <<"M","o","n","t","h","l","y"," ","c","l","e","a","n","u","p",".">>,
      createdAt |-> now - 10000] >>

-----------------------------------------------------------------------------
(* Effects that run after a render *)

persistAlways(newTasks, newLoading) ==
  localStorage' = JSONstringify(newTasks)

\* useEffect(..., [state.tasks, state.isLoading]): the persist effect
persist(newTasks, newLoading) ==
  localStorage' =
    IF (newTasks # tasks \/ newLoading # isLoading) /\ ~newLoading
      THEN JSONstringify(newTasks)
      ELSE localStorage

undoTimerEffectNoCleanup(newVisible) ==
  undoTimer' = IF newVisible /\ ~isUndoVisible THEN UNDO_TIMEOUT ELSE undoTimer

\* useEffect(..., [state.isUndoVisible, closeUndoSnackbar]): the undo timer
undoTimerEffect(newVisible) ==
  undoTimer' =
    IF newVisible = isUndoVisible THEN undoTimer
    ELSE IF newVisible THEN UNDO_TIMEOUT
    ELSE 0

\* history of the handlers
record(op, base, dropped) ==
  /\ lastOp' = op
  /\ lastArg' = base
  /\ discarded' = discarded \cup dropped

\* a handler started by the user, and one started by a timer or a reader
byUser == events < MaxEvents /\ events' = events + 1
bySystem == UNCHANGED events

slotIds == IF lastDeletedTask = Null THEN {} ELSE {lastDeletedTask.id}

mounted == effectRuns >= 1

-----------------------------------------------------------------------------
(* Initial state *)

initial(saved) ==
  /\ tasks = <<>>
  /\ lastDeletedTask = Null
  /\ isUndoVisible = FALSE
  /\ isLoading = TRUE
  /\ searchQuery = <<>>
  /\ filterStatus = ALL
  /\ filterPriority = ALL
  /\ dialogConfig = [isOpen |-> FALSE, type |-> "add", selectedTask |-> Null]
  /\ isFetched = FALSE
  /\ effectRuns = 0
  /\ loadTimer = 0
  /\ loadsDone = 0
  /\ undoTimer = 0
  /\ reader = <<>>
  /\ localStorage = saved
  /\ nextId = IF saved # Null /\ parses(saved) THEN Len(saved.json) + 1 ELSE 1
  /\ now = 0
  /\ lastOp = "init"
  /\ lastArg = Null
  /\ discarded = {}
  /\ events = 0

\* nothing saved yet, or a list saved by an earlier session
Init == \E saved \in {Null} \cup {JSONstringify(l) : l \in SavedLists} : initial(saved)

\* the same, or a text under the key that is not JSON
InitFaults ==
  \E saved \in {Null, Corrupt} \cup {JSONstringify(l) : l \in SavedLists} :
    initial(saved)

-----------------------------------------------------------------------------
(* Initial load *)

neverFetched == FALSE

\* if (isFetched.current) return
alreadyFetched == isFetched

\* the mount effect, guarded by isFetched; StrictMode invokes it again right
\* after the first invocation
initEffect ==
  /\ bySystem
  /\ effectRuns < MaxEffectRuns
  /\ effectRuns > 0 => lastOp = "initEffect"
  /\ effectRuns' = effectRuns + 1
  /\ IF alreadyFetched
       THEN UNCHANGED <<isFetched, loadTimer>>
       ELSE /\ isFetched' = TRUE
            /\ loadTimer' = loadTimer + 1
  /\ record("initEffect", Null, {})
  /\ UNCHANGED <<tasks, lastDeletedTask, isUndoVisible, isLoading, searchQuery,
                 filterStatus, filterPriority, dialogConfig, loadsDone,
                 undoTimer, reader, localStorage, now, nextId>>

\* what loadTasks adopts: the saved list, or the seed
loaded(saved) == IF saved # Null THEN JSONparse(saved) ELSE initialTasks

\* JSON.parse(saved) is called outside any try block: on a text it rejects
\* the exception leaves the callback before setState
throws(saved) == saved # Null /\ ~parses(saved)

\* the setTimeout(loadTasks, 600) callback
loadTasks ==
  /\ bySystem
  /\ loadTimer > 0
  /\ loadTimer' = loadTimer - 1
  /\ loadsDone' = loadsDone + 1
  /\ LET saved == localStorage
     IN IF throws(saved)
          THEN UNCHANGED <<tasks, isLoading, nextId, localStorage>>
          ELSE /\ tasks' = loaded(saved)
               /\ isLoading' = FALSE
               /\ nextId' = IF saved # Null THEN nextId ELSE nextId + 3
               /\ persist(loaded(saved), FALSE)
  /\ undoTimerEffect(isUndoVisible)
  /\ record("loadTasks",
            [pre |-> tasks, saved |-> localStorage, threw |-> throws(localStorage)],
            {})
  /\ UNCHANGED <<lastDeletedTask, isUndoVisible, searchQuery, filterStatus,
                 filterPriority, dialogConfig, isFetched, effectRuns, reader, now>>

-----------------------------------------------------------------------------
(* Undo snackbar *)

\* lastDeletedTask: null
closedSlotStale == lastDeletedTask
closedSlot == Null

closeUndoSnackbar ==
  /\ isUndoVisible' = FALSE
  /\ lastDeletedTask' = closedSlot
  /\ undoTimerEffect(FALSE)
  /\ UNCHANGED <<tasks, isLoading, localStorage>>

\* the close button of the snackbar
dismiss ==
  /\ byUser
  /\ mounted
  /\ isUndoVisible
  /\ closeUndoSnackbar
  /\ record("dismiss", [slot |-> lastDeletedTask], slotIds)
  /\ UNCHANGED <<searchQuery, filterStatus, filterPriority, dialogConfig,
                 isFetched, effectRuns, loadTimer, loadsDone, reader, now, nextId>>

\* TICK ms pass (the load, due after 600 ms, has run by then); the undo
\* timer fires when it runs out
tick ==
  /\ bySystem
  /\ mounted
  /\ loadTimer = 0
  /\ now < MaxTicks * TICK
  /\ now' = now + TICK
  /\ IF undoTimer > 0 /\ undoTimer <= TICK
       THEN /\ closeUndoSnackbar
            /\ record("timeout", [slot |-> lastDeletedTask], slotIds)
       ELSE /\ undoTimer' = IF undoTimer > TICK THEN undoTimer - TICK ELSE 0
            /\ record("other", Null, {})
            /\ UNCHANGED <<tasks, lastDeletedTask, isUndoVisible, isLoading,
                           localStorage>>
  /\ UNCHANGED <<searchQuery, filterStatus, filterPriority, dialogConfig,
                 isFetched, effectRuns, loadTimer, loadsDone, reader, nextId>>

-----------------------------------------------------------------------------
(* Task store *)

\* the task object built at lines 84-94
newTask(data) ==
  [id |-> generateId(1),
   createdAt |-> now,
   title |-> orText(data, "title", NEW_TASK),
   revenue |-> orNum(data, "revenue"),
   timeTaken |-> orNum(data, "timeTaken"),
   roi |-> orNum(data, "roi"),
   priority |-> orText(data, "priority", LOW),
   status |-> orText(data, "status", PENDING),
   notes |-> orText(data, "notes", <<>>)]

addedLast(data) == Append(tasks, newTask(data))

\* prev => [newTask, ...prev.tasks]
added(data) == <<newTask(data)>> \o tasks

addTask(data) ==
  /\ nextId <= MaxId
  /\ tasks' = added(data)
  /\ persist(added(data), isLoading)
  /\ nextId' = nextId + 1
  /\ dialogConfig' = [dialogConfig EXCEPT !.isOpen = FALSE]
  /\ record("addTask",
            [pre |-> tasks, data |-> data, slot |-> lastDeletedTask], {})
  /\ UNCHANGED <<lastDeletedTask, isUndoVisible, isLoading, searchQuery,
                 filterStatus, filterPriority, isFetched, effectRuns, loadTimer,
                 loadsDone, undoTimer, reader, now>>

updatedTasks(data) ==
  [i \in 1..Len(tasks) |->
     IF tasks[i].id = dialogConfig.selectedTask.id
       THEN spread(tasks[i], data)
       ELSE tasks[i]]

updateTask(data) ==
  /\ IF dialogConfig.selectedTask = Null
       THEN UNCHANGED <<tasks, dialogConfig, localStorage>>
       ELSE /\ tasks' = updatedTasks(data)
            /\ persist(updatedTasks(data), isLoading)
            /\ dialogConfig' =
                 [dialogConfig EXCEPT !.isOpen = FALSE, !.selectedTask = Null]
  /\ record("updateTask",
            [pre |-> tasks, data |-> data, selected |-> dialogConfig.selectedTask],
            {})
  /\ UNCHANGED <<lastDeletedTask, isUndoVisible, isLoading, searchQuery,
                 filterStatus, filterPriority, isFetched, effectRuns, loadTimer,
                 loadsDone, undoTimer, reader, now, nextId>>

removedNone(task) == tasks

\* prev.tasks.filter(t => t.id !== task.id)
removed(task) == SelectSeq(tasks, LAMBDA t : t.id # task.id)

deleteTask(task) ==
  /\ tasks' = removed(task)
  /\ persist(removed(task), isLoading)
  /\ lastDeletedTask' = task
  /\ isUndoVisible' = TRUE
  /\ undoTimerEffect(TRUE)
  /\ record("delete",
            [pre |-> tasks, task |-> task, visible |-> isUndoVisible], slotIds)
  /\ UNCHANGED <<isLoading, searchQuery, filterStatus, filterPriority,
                 dialogConfig, isFetched, effectRuns, loadTimer, loadsDone,
                 reader, now, nextId>>

restoredFirst == <<lastDeletedTask>> \o tasks

\* [...prev.tasks, prev.lastDeletedTask]
restored == Append(tasks, lastDeletedTask)

(* undoDelete as created by the render of a state whose lastDeletedTask was
   `seen`: the test reads that state, the updater reads the state it is
   applied to *)
undoDeleteSeeing(seen) ==
  /\ IF seen # Null
       THEN /\ tasks' = restored
            /\ persist(restored, isLoading)
            /\ lastDeletedTask' = Null
            /\ isUndoVisible' = FALSE
            /\ undoTimerEffect(FALSE)
       ELSE UNCHANGED <<tasks, localStorage, lastDeletedTask, isUndoVisible,
                        undoTimer>>
  /\ record("undo",
            [pre |-> tasks, slot |-> lastDeletedTask,
             visible |-> isUndoVisible, store |-> localStorage,
             deleted |-> IF lastOp = "delete" THEN lastArg ELSE Null],
            {})
  /\ UNCHANGED <<isLoading, searchQuery, filterStatus, filterPriority,
                 dialogConfig, isFetched, effectRuns, loadTimer, loadsDone,
                 reader, now, nextId>>

\* the handler of the current render
undoDelete == undoDeleteSeeing(lastDeletedTask)

-----------------------------------------------------------------------------
(* CSV import *)

\* the task pushed for line i (0-based) as the k-th accepted row
rowTask(parts, i, k) ==
  LET rev == numOrZero(parseFloat(parts[2]))
      time == numOrZero(parseFloat(parts[3]))
  IN [id |-> generateId(k),
      title |-> stripQuotes(parts[1]),
      revenue |-> rev,
      timeTaken |-> time,
      roi |-> calculateROI(rev, time),
      priority |-> IF parts[5] # <<>> THEN parts[5] ELSE LOW,
      status |-> IF parts[6] # <<>> THEN parts[6] ELSE PENDING,
      notes |-> stripQuotes(IF Len(parts) >= 7 THEN parts[7] ELSE <<>>),
      createdAt |-> now - (i * ROW_OFFSET)]

acceptsMoreThan(parts) == Len(parts) > MIN_FIELDS

\* parts.length >= 6
accepts(parts) == Len(parts) >= MIN_FIELDS

\* the loop over lines[i], i = 1 .. lines.length - 1
RECURSIVE importLoop(_, _, _)
importLoop(lines, i, newTasks) ==
  IF i >= Len(lines) THEN newTasks
  ELSE LET line == trim(lines[i + 1])
           parts == split(line, ",")
       IN IF line = <<>> THEN importLoop(lines, i + 1, newTasks)
          ELSE IF accepts(parts)
            THEN importLoop(lines, i + 1,
                            Append(newTasks, rowTask(parts, i, Len(newTasks) + 1)))
            ELSE importLoop(lines, i + 1, newTasks)

parseCSV(text) == importLoop(split(text, "\n"), 1, <<>>)

mergedAlone(newTasks) == newTasks

\* prev => [...newTasks, ...prev.tasks]
merged(newTasks) == newTasks \o tasks

\* the change handler of the file input: starts the read
handleImportCSV(file) ==
  /\ byUser
  /\ mounted
  /\ Len(reader) < MaxReads
  /\ reader' = Append(reader, file)
  /\ record("other", Null, {})
  /\ UNCHANGED <<tasks, lastDeletedTask, isUndoVisible, isLoading, searchQuery,
                 filterStatus, filterPriority, dialogConfig, isFetched,
                 effectRuns, loadTimer, loadsDone, undoTimer, localStorage, now,
                 nextId>>

\* reader.onload
readerOnload ==
  /\ bySystem
  /\ reader # <<>>
  /\ LET newTasks == parseCSV(Head(reader))
         result == IF Len(newTasks) > 0 THEN merged(newTasks) ELSE tasks
     IN /\ nextId + Len(newTasks) - 1 <= MaxId
        /\ tasks' = result
        /\ persist(result, isLoading)
        /\ nextId' = nextId + Len(newTasks)
  /\ reader' = Tail(reader)
  /\ record("readerOnload",
            [pre |-> tasks, file |-> Head(reader), at |-> now,
             after |-> lastOp, slot |-> lastDeletedTask,
             visible |-> isUndoVisible, timer |-> undoTimer],
            {})
  /\ UNCHANGED <<lastDeletedTask, isUndoVisible, isLoading, searchQuery,
                 filterStatus, filterPriority, dialogConfig, isFetched,
                 effectRuns, loadTimer, loadsDone, undoTimer, now>>

-----------------------------------------------------------------------------
(* Dialog *)

setDialogConfig(config) ==
  /\ dialogConfig' = config
  /\ UNCHANGED <<tasks, lastDeletedTask, isUndoVisible, isLoading, searchQuery,
                 filterStatus, filterPriority, isFetched, effectRuns, loadTimer,
                 loadsDone, undoTimer, reader, localStorage, now, nextId>>

\* the New Task button
openAdd ==
  /\ byUser
  /\ mounted
  /\ ~dialogConfig.isOpen
  /\ setDialogConfig([isOpen |-> TRUE, type |-> "add", selectedTask |-> Null])
  /\ record("other", Null, {})

\* onView of a card
openView(t) ==
  /\ byUser
  /\ ~isLoading
  /\ ~dialogConfig.isOpen
  /\ setDialogConfig([isOpen |-> TRUE, type |-> "view", selectedTask |-> t])
  /\ record("other", Null, {})

\* onEdit of a card
openEdit(t) ==
  /\ byUser
  /\ ~isLoading
  /\ ~dialogConfig.isOpen
  /\ setDialogConfig([isOpen |-> TRUE, type |-> "edit", selectedTask |-> t])
  /\ record("other", Null, {})

closedConfigKeeping == [dialogConfig EXCEPT !.isOpen = FALSE]

\* { ...dialogConfig, isOpen: false, selectedTask: null }
closedConfig == [dialogConfig EXCEPT !.isOpen = FALSE, !.selectedTask = Null]

\* onClose of the dialog
closeDialog ==
  /\ byUser
  /\ dialogConfig.isOpen
  /\ setDialogConfig(closedConfig)
  /\ record("closeDialog", [hadTask |-> dialogConfig.selectedTask # Null], {})

\* onSubmit of the dialog: addTask in add mode, updateTask otherwise
submitAdd(data) ==
  /\ byUser
  /\ dialogConfig.isOpen
  /\ dialogConfig.type = "add"
  /\ addTask(data)

submitUpdate(data) ==
  /\ byUser
  /\ dialogConfig.isOpen
  /\ dialogConfig.type = "edit"
  /\ updateTask(data)

\* onDelete of a card
clickDelete(task) ==
  /\ byUser
  /\ ~isLoading
  /\ deleteTask(task)

\* the Undo button of the snackbar
clickUndo ==
  /\ byUser
  /\ mounted
  /\ isUndoVisible
  /\ undoDelete

-----------------------------------------------------------------------------
(* Filters *)

setFilters(q, st, pr) ==
  /\ byUser
  /\ ~isLoading
  /\ searchQuery' = q
  /\ filterStatus' = st
  /\ filterPriority' = pr
  /\ record("other", Null, {})
  /\ UNCHANGED <<tasks, lastDeletedTask, isUndoVisible, isLoading, dialogConfig,
                 isFetched, effectRuns, loadTimer, loadsDone, undoTimer, reader,
                 localStorage, now, nextId>>

setSearchQuery(q) == setFilters(q, filterStatus, filterPriority)
setFilterStatus(st) == setFilters(searchQuery, st, filterPriority)
setFilterPriority(pr) == setFilters(searchQuery, filterStatus, pr)

SearchTexts == { <<>>, <<"a">>, <<"B">>, <<"e","p">>, <<"z">> }
StatusOptions == { ALL, PENDING, IN_PROGRESS, COMPLETED }
PriorityOptions == { ALL, HIGH, MEDIUM, LOW }

-----------------------------------------------------------------------------
(* The application *)

Next ==
  \/ initEffect
  \/ loadTasks
  \/ tick
  \/ dismiss
  \/ openAdd
  \/ \E t \in Range(displayTasks) : openView(t)
  \/ \E t \in Range(displayTasks) : openEdit(t)
  \/ closeDialog
  \/ \E data \in FormInputs : submitAdd(data)
  \/ \E data \in FormInputs : submitUpdate(data)
  \/ \E t \in Range(displayTasks) : clickDelete(t)
  \/ clickUndo
  \/ \E file \in CsvFiles : handleImportCSV(file)
  \/ readerOnload

Spec == Init /\ [][Next]_vars

\* React runs the mount effect, and the 600 ms timer fires
FairSpec ==
  Spec /\ WF_vars(initEffect /\ effectRuns = 0) /\ WF_vars(loadTasks)

\* updateTask applied to every Partial<Task>, whatever the dialog shows
updateAny(data) ==
  /\ byUser
  /\ ~isLoading
  /\ updateTask(data)

NextUpdate ==
  \/ initEffect
  \/ loadTasks
  \/ \E t \in Range(displayTasks) : openView(t)
  \/ \E t \in Range(displayTasks) : openEdit(t)
  \/ closeDialog
  \/ \E t \in Range(displayTasks) : clickDelete(t)
  \/ \E data \in AnyPartials : updateAny(data)

SpecUpdate == Init /\ [][NextUpdate]_vars

\* the view pipeline under every setting of the filters
NextView ==
  \/ initEffect
  \/ loadTasks
  \/ openAdd
  \/ \E data \in FormInputs : submitAdd(data)
  \/ \E t \in Range(displayTasks) : clickDelete(t)
  \/ \E q \in SearchTexts : setSearchQuery(q)
  \/ \E st \in StatusOptions : setFilterStatus(st)
  \/ \E pr \in PriorityOptions : setFilterPriority(pr)

SpecView == Init /\ [][NextView]_vars

(* A click on Undo handled after the timer's closeUndoSnackbar has queued its
   update and before React has rendered it: the button is still on the page
   and its handler is the one of the last render, which saw the slot full *)
clickUndoStale ==
  /\ byUser
  /\ lastOp = "timeout"
  /\ undoDeleteSeeing(lastArg.slot)

\* every element of the collection is a task: the render reads t.title of each
wellFormed == Null \notin Range(tasks)

\* a null element makes the render throw, and React unmounts the App
NextFaults ==
  \/ wellFormed /\ initEffect
  \/ wellFormed /\ loadTasks
  \/ wellFormed /\ tick
  \/ wellFormed /\ dismiss
  \/ wellFormed /\ openAdd
  \/ wellFormed /\ \E t \in Range(displayTasks) : openEdit(t)
  \/ wellFormed /\ closeDialog
  \/ wellFormed /\ \E data \in FormInputs : submitAdd(data)
  \/ wellFormed /\ \E data \in FormInputs : submitUpdate(data)
  \/ wellFormed /\ \E t \in Range(displayTasks) : clickDelete(t)
  \/ wellFormed /\ clickUndo
  \/ wellFormed /\ \E file \in CsvFiles : handleImportCSV(file)
  \/ wellFormed /\ readerOnload
  \/ clickUndoStale

\* the application started on any content of the store, with that click
SpecFaults == InitFaults /\ [][NextFaults]_vars

-----------------------------------------------------------------------------
(* Properties *)

\* C1: every delete that shows the snackbar (re)starts the timeout, so the
\* task it leaves in the slot has the full UNDO_TIMEOUT ahead of it, also when
\* the snackbar was already visible for an earlier delete.
C1_DeleteRestartsTimeout ==
  lastOp = "delete" => undoTimer = UNDO_TIMEOUT

\* C2: no task the user got accepted while the load was pending is missing
\* from the collection once the load has completed.
C2_LoadKeepsAcceptedTasks ==
  lastOp = "loadTasks" => \A t \in Range(lastArg.pre) : t \in Range(tasks)

\* C3: delete(T) immediately followed by undo() gives the collection before the
\* delete with T, unchanged in every field, moved to the end: the same set of
\* tasks, the slot empty and the snackbar hidden.
C3_DeleteUndoRestores ==
  (lastOp = "undo" /\ lastArg.deleted # Null) =>
    LET earlier == lastArg.deleted.pre
        T == lastArg.deleted.task
    IN /\ T \in Range(earlier)
       /\ tasks = Append(SelectSeq(earlier, LAMBDA t : t # T), T)
       /\ Range(tasks) = Range(earlier)
       /\ Len(tasks) = Len(earlier)
       /\ lastDeletedTask = Null
       /\ ~isUndoVisible

C3_Witness ==
  /\ lastOp = "undo"
  /\ lastArg.deleted # Null
  /\ Len(tasks) >= 3
  /\ lastArg.deleted.task = lastArg.deleted.pre[1]

\* C4: the slot holds one task at most, and a task dropped from it (by the
\* timeout, by a dismiss, or by a later delete taking the slot) is in the
\* collection and in the slot in no later state: undo cannot bring it back.
C4_DiscardedStaysAbsent ==
  /\ lastDeletedTask = Null \/ DOMAIN lastDeletedTask = DOMAIN SavedTask1
  /\ \A id \in discarded :
       /\ id \notin Ids(tasks)
       /\ lastDeletedTask # Null => lastDeletedTask.id # id

\* a second delete took the slot from the first, and undo restored the second
C4_Witness ==
  /\ lastOp = "undo"
  /\ lastArg.deleted # Null
  /\ discarded # {}
  /\ lastArg.deleted.task \in Range(tasks)
  /\ \E t \in Range(lastArg.deleted.pre) : t.id \notin discarded

\* C5: the store is not written while isLoading is true, and whenever the
\* load has completed the store holds the serialization of the whole current
\* collection.
C5_StoreMirrorsCollection ==
  /\ [](~isLoading => localStorage = JSONstringify(tasks))
  /\ [][isLoading' => localStorage' = localStorage]_vars

C5_Witness ==
  /\ ~isLoading
  /\ lastOp = "undo"
  /\ lastArg.deleted # Null
  /\ localStorage = JSONstringify(tasks)
  /\ localStorage # JSONstringify(lastArg.deleted.pre)

\* C6: with the mount effect invoked twice, one load is scheduled and runs; it
\* ends the loading state for good and leaves the saved list, or the three
\* seed tasks when nothing was saved.
C6_InitializesOnce ==
  /\ [](loadTimer + loadsDone <= 1)
  /\ <>(~isLoading /\ loadsDone = 1)
  /\ [][~isLoading => ~isLoading']_vars
  /\ [](lastOp = "loadTasks" =>
          IF lastArg.saved = Null
            THEN Len(tasks) = 3 /\ Cardinality({t.title : t \in Range(tasks)}) = 3
            ELSE JSONstringify(tasks) = lastArg.saved)

C6_Witness ==
  /\ effectRuns = 2
  /\ loadsDone = 1
  /\ lastOp = "loadTasks"
  /\ lastArg.saved = Null
  /\ Len(tasks) = 3

\* C7: no two tasks of the collection have the same id.
C7_UniqueIds ==
  \A i, j \in 1..Len(tasks) : i # j => tasks[i].id # tasks[j].id

C7_Witness ==
  /\ lastOp = "undo"
  /\ lastArg.deleted # Null
  /\ Len(tasks) >= 3
  /\ \E i \in 1..Len(tasks) : tasks[i].createdAt \notin {-10000, -5000, -3000, -2000, 0}

\* C8: update changes only the task with the selected id, by merging the
\* partial into it; whatever the partial holds, it leaves that task's id and
\* createdAt, every other task and the order alone; with nothing selected it
\* changes nothing.
C8_UpdateFrame ==
  lastOp = "updateTask" =>
    IF lastArg.selected = Null
      THEN tasks = lastArg.pre
      ELSE /\ Len(tasks) = Len(lastArg.pre)
           /\ \A i \in 1..Len(tasks) :
                /\ tasks[i].id = lastArg.pre[i].id
                /\ tasks[i].createdAt = lastArg.pre[i].createdAt
                /\ lastArg.pre[i].id # lastArg.selected.id =>
                     tasks[i] = lastArg.pre[i]
                /\ lastArg.pre[i].id = lastArg.selected.id =>
                     \A f \in DOMAIN tasks[i] \ {"id", "createdAt"} :
                       tasks[i][f] = IF f \in DOMAIN lastArg.data
                                       THEN lastArg.data[f]
                                       ELSE lastArg.pre[i][f]

\* C9: import drops the first line and the blank lines, accepts a row iff it
\* has 6 fields or more (5 commas), makes one task per accepted row and puts
\* them, in file order, in front of the tasks there were, which keep their
\* order.
commas(line) == Cardinality({i \in 1..Len(line) : line[i] = ","})

firstField(line) ==
  IF \E i \in 1..Len(line) : line[i] = ","
    THEN SubSeq(line, 1, (CHOOSE i \in 1..Len(line) :
                            line[i] = "," /\ \A j \in 1..(i - 1) : line[j] # ",") - 1)
    ELSE line

acceptedLines(lines) ==
  {n \in 2..Len(lines) : trim(lines[n]) # <<>> /\ commas(trim(lines[n])) >= 5}

nthOf(S, k) == CHOOSE n \in S : Cardinality({m \in S : m < n}) = k - 1

C9_ImportPrependsAcceptedRows ==
  lastOp = "readerOnload" =>
    LET lines == split(lastArg.file, "\n")
        acc == acceptedLines(lines)
        n == Cardinality(acc)
    IN /\ Len(tasks) = Len(lastArg.pre) + n
       /\ SubSeq(tasks, n + 1, Len(tasks)) = lastArg.pre
       /\ \A k \in 1..n :
            /\ tasks[k].title = stripQuotes(firstField(trim(lines[nthOf(acc, k)])))
            /\ tasks[k].createdAt = lastArg.at - (nthOf(acc, k) - 1) * 1000

\* a header, two rows that count and a row of 3 columns, onto a collection
C9_Witness ==
  /\ lastOp = "readerOnload"
  /\ lastArg.file = csvText(<<HeaderRow, Row7, Row3, Row6>>)
  /\ lastArg.pre # <<>>
  /\ Len(tasks) = Len(lastArg.pre) + 2
  /\ tasks[1].title = <<"A">>
  /\ tasks[2].title = <<"b">>

\* C10: the displayed list holds exactly the tasks whose title contains the
\* search text without regard to case (or the text is empty), whose status is
\* the status filter unless that is All, and whose priority is the priority
\* filter unless that is All.
containsIgnoringCase(title, q) ==
  \E off \in 0..Len(title) :
    /\ off + Len(q) <= Len(title)
    /\ \A k \in 1..Len(q) : lowerChar(title[off + k]) = lowerChar(q[k])

shown(t) ==
  /\ searchQuery = <<>> \/ containsIgnoringCase(t.title, searchQuery)
  /\ filterStatus = ALL \/ t.status = filterStatus
  /\ filterPriority = ALL \/ t.priority = filterPriority

C10_DisplayedAreTheMatches ==
  /\ Range(displayTasks) = {t \in Range(tasks) : shown(t)}
  /\ Len(displayTasks) = Cardinality({i \in 1..Len(tasks) : shown(tasks[i])})

\* the collection [A: Low, B: High] under the priority filter High
C10_Witness ==
  /\ tasks = <<SavedTask1, SavedTask2>>
  /\ filterPriority = HIGH
  /\ displayTasks = <<SavedTask2>>

(* C11: once the load callback has run, loading has ended and the callback
   did not end in an uncaught exception, whatever the store held; the
   collection is then the whole saved list when the store held one, the seed
   when it held nothing, and in every case a list of tasks only. *)
C11_LoadAbsorbsFailure ==
  /\ loadsDone >= 1 => ~isLoading
  /\ lastOp = "loadTasks" =>
        /\ ~lastArg.threw
        /\ lastArg.saved = Null => Len(tasks) = Len(initialTasks)
        /\ (lastArg.saved # Null /\ parses(lastArg.saved)) =>
              tasks = JSONparse(lastArg.saved)
        /\ Null \notin Range(tasks)

(* C12: undo called while the slot is empty changes nothing: collection,
   slot, visibility of the snackbar and store are as before; and no element
   of the collection is ever null. *)
C12_UndoOnEmptySlotIsNoOp ==
  /\ Null \notin Range(tasks)
  /\ (lastOp = "undo" /\ lastArg.slot = Null) =>
        /\ tasks = lastArg.pre
        /\ lastDeletedTask = Null
        /\ isUndoVisible = lastArg.visible
        /\ localStorage = lastArg.store

(* C13: closing the dialog leaves it closed with no selected task; while the
   dialog is open in add mode no task is selected; and an add leaves the
   tasks that were there as they were, behind the new one. *)
C13_NoStaleSelection ==
  /\ lastOp = "closeDialog" =>
        ~dialogConfig.isOpen /\ dialogConfig.selectedTask = Null
  /\ (dialogConfig.isOpen /\ dialogConfig.type = "add") =>
        dialogConfig.selectedTask = Null
  /\ lastOp = "addTask" =>
        /\ dialogConfig.selectedTask = Null
        /\ SubSeq(tasks, 2, Len(tasks)) = lastArg.pre

\* the edit form closed while it showed a task
C13_Witness ==
  /\ lastOp = "closeDialog"
  /\ lastArg.hadTask
  /\ dialogConfig = [isOpen |-> FALSE, type |-> "edit", selectedTask |-> Null]

(* C14: after add(data) the collection is one new task followed by the tasks
   that were there, in their order; the new task's id is none of theirs; each
   field the data gives is taken from it and each field it leaves out has its
   default (title "New Task", numbers 0, priority Low, status Pending, notes
   empty); the undo slot is as before. *)
C14_AddPrependsOneTask ==
  lastOp = "addTask" =>
    LET data == lastArg.data
        new == tasks[1]
    IN /\ Len(tasks) = Len(lastArg.pre) + 1
       /\ SubSeq(tasks, 2, Len(tasks)) = lastArg.pre
       /\ new.id \notin Ids(lastArg.pre)
       /\ new.title = IF has(data, "title") /\ data.title # <<>>
                        THEN data.title ELSE NEW_TASK
       /\ new.revenue = IF has(data, "revenue") THEN data.revenue ELSE 0
       /\ new.timeTaken = IF has(data, "timeTaken") THEN data.timeTaken ELSE 0
       /\ new.roi = IF has(data, "roi") THEN data.roi ELSE 0
       /\ new.priority = IF has(data, "priority") /\ data.priority # <<>>
                           THEN data.priority ELSE LOW
       /\ new.status = IF has(data, "status") /\ data.status # <<>>
                           THEN data.status ELSE PENDING
       /\ new.notes = IF has(data, "notes") THEN data.notes ELSE <<>>
       /\ lastDeletedTask = lastArg.slot

\* a form that leaves fields out, added in front of a loaded collection while
\* a deleted task waits in the slot
C14_Witness ==
  /\ lastOp = "addTask"
  /\ ~has(lastArg.data, "priority")
  /\ Len(lastArg.pre) >= 1
  /\ lastDeletedTask # Null
  /\ tasks[1].priority = LOW

(* C15: while the snackbar is hidden no undo timer is pending, so after an
   undo or a dismiss the timer of that delete is gone; a delete made while
   the snackbar is hidden then has the whole timeout ahead of it. *)
C15_LeavingVisibleCancelsTimer ==
  /\ ~isUndoVisible => undoTimer = 0
  /\ lastOp \in {"undo", "dismiss"} => undoTimer = 0
  /\ (lastOp = "delete" /\ ~lastArg.visible) => undoTimer = UNDO_TIMEOUT

\* delete, half the timeout passes, dismiss, delete again
C15_Witness ==
  /\ lastOp = "delete"
  /\ ~lastArg.visible
  /\ discarded # {}
  /\ now > 0
  /\ now < UNDO_TIMEOUT
  /\ undoTimer = UNDO_TIMEOUT

(* C16: the snackbar is visible exactly when the undo slot holds a task. *)
C16_VisibleIffSlotFull == isUndoVisible <=> lastDeletedTask # Null

\* the timeout has hidden the snackbar and emptied the slot it found full
C16_Witness ==
  /\ lastOp = "timeout"
  /\ lastArg.slot # Null
  /\ ~isUndoVisible
  /\ lastDeletedTask = Null

(* C17: when a file read completes, the imported batch is put in front of the
   collection as it is at that moment, whatever it was when the read started;
   the undo slot, the snackbar and its timer are as they were. *)
C17_ImportMergesAtCompletion ==
  lastOp = "readerOnload" =>
    LET n == Len(tasks) - Len(lastArg.pre)
    IN /\ n >= 0
       /\ SubSeq(tasks, n + 1, Len(tasks)) = lastArg.pre
       /\ lastDeletedTask = lastArg.slot
       /\ isUndoVisible = lastArg.visible
       /\ undoTimer = lastArg.timer

\* a read completing right after a delete, so started before it: the batch
\* is in front of the collection without the deleted task
C17_Witness ==
  /\ lastOp = "readerOnload"
  /\ lastArg.after = "delete"
  /\ lastArg.slot # Null
  /\ lastArg.slot.id \notin Ids(tasks)
  /\ Len(tasks) > Len(lastArg.pre)

(* C18: no task of the collection has the id of the task in the undo slot,
   and an undo puts back a task whose id no task of the collection has. *)
C18_SlotTaskNotInCollection ==
  /\ lastDeletedTask # Null => lastDeletedTask.id \notin Ids(tasks)
  /\ (lastOp = "undo" /\ lastArg.slot # Null) =>
        lastArg.slot.id \notin Ids(lastArg.pre)

\* a task restored from the slot into a collection that still holds others
C18_Witness ==
  /\ lastOp = "undo"
  /\ lastArg.slot # Null
  /\ Len(lastArg.pre) >= 1
  /\ tasks[Len(tasks)] = lastArg.slot

====
